---- MODULE Spec2Model ----
(***************************************************************************)
(* Model of the campus-network simulator: class Dispositivo and class Rede *)
(* of topologia.py (the module cli.py imports) and of rede.py. A run uses  *)
(* one of the two modules, named by the variable modulo, and is a sequence *)
(* of calls on one Rede object: adicionar_dispositivo, adicionar_link,     *)
(* ping, traceroute and the rebuild of the routing tables (Spec). The path *)
(* finder, bfs of topologia.py and dijkstra of rede.py, is also run on its *)
(* own, one iteration of its loop per step, on every topology of a bounded *)
(* set (SpecBusca).                                                        *)
(*                                                                         *)
(* A device object is identified by its position in Rede.dispositivos.     *)
(* A Python dict is a sequence of [chave, valor] records in insertion      *)
(* order (assigning an existing key keeps its position).                   *)
(* An address string "a.b.c.d/p" is [octetos |-> <<a,b,c,d>>,              *)
(* mascara |-> <<p>>]; "a.b.c.d" has mascara |-> <<>>.                      *)
(* Definitions of rede.py that share a name with topologia.py carry the    *)
(* prefix rede_.                                                           *)
(***************************************************************************)
EXTENDS Integers, Sequences, FiniteSets, TLC

VARIABLES
  modulo,             \* the code the run executes, one of Modulos
  dispositivos,       \* Rede.dispositivos
  vizinhos,           \* Dispositivo.vizinhos of each device
  tabela_roteamento,  \* Dispositivo.tabela_roteamento of each device
  enlaces,            \* Rede.enlaces (topologia.py only)
  ordem_set,          \* iteration order of set(self.dispositivos) (rede.py only)
  pc,                 \* "menu": awaiting a call; "saida": a query has returned
  retorno             \* the value the last call returned

vars == <<modulo, dispositivos, vizinhos, tabela_roteamento, enlaces, ordem_set,
          pc, retorno>>

(* ---------------------------- bounds ----------------------------------- *)
MaxDispositivos == 4

MaxEnlaces == 3

\* rede.py keeps no link log; its runs are bounded by the devices alone
MaxDispositivosRede == 3

\* The adicionar_link calls behind a topology handed to the path finder alone
MaxEnlacesBusca == 4

(* ------------------------ program constants ---------------------------- *)
\* None, as the value of anteriores[d] and of a failed lookup
Nenhum == 0

\* float('inf')
Infinito == 1000

\* "quantidade de saltos * 10ms"
LatenciaPorSalto == 10

(* ----------------------------- inputs ---------------------------------- *)
IP(a, b, c, d, m) == [octetos |-> <<a, b, c, d>>, mascara |-> m]

\* The devices a caller constructs, Dispositivo(nome, ip, tipo), in the order
\* it adds them: names and addresses after cli.py's address plan, with two
\* routers, two devices that share the subnet 172.16.1.0/24, and one address
\* without a mask.
Catalogo ==
  << [nome |-> "c1", ip |-> IP(172, 16, 0, 1, <<24>>),  tipo |-> "roteador"],
     [nome |-> "a1", ip |-> IP(172, 16, 1, 1, <<24>>),  tipo |-> "comutador"],
     [nome |-> "e1", ip |-> IP(172, 16, 1, 66, <<24>>), tipo |-> "roteador"],
     [nome |-> "h1", ip |-> IP(172, 16, 2, 2, <<>>),    tipo |-> "host"],
     [nome |-> "h2", ip |-> IP(172, 16, 1, 2, <<24>>),  tipo |-> "host"] >>

\* An address no constructed device carries
IPDesconhecido == IP(9, 9, 9, 9, <<>>)

\* (custo, enlace, capacidade, justificativa) of an adicionar_link call; the
\* first is the tuple of the defaults.
Atributos ==
  { <<1, "fibra", "1Gbps", "Backbone">>,
    <<0, "par trancado", "100Mbps", "Borda">> }

(* ------------------------------ dict ----------------------------------- *)
Chaves(d) == { d[k].chave : k \in 1..Len(d) }

Posicao(d, c) == CHOOSE k \in 1..Len(d) : d[k].chave = c

DictGet(d, c) == d[Posicao(d, c)].valor

DictSet(d, c, v) ==
  IF c \in Chaves(d)
    THEN [d EXCEPT ![Posicao(d, c)] = [chave |-> c, valor |-> v]]
    ELSE Append(d, [chave |-> c, valor |-> v])

\* A subnet attribute of None (rede.py, address without a mask)
SemSubnet == [octetos |-> <<>>, mascara |-> <<>>]

(* --------------------------- Dispositivo ------------------------------- *)
\* str(ip_interface(ip).network): the host bits cleared, /32 without a mask
Network(ip) ==
  LET p == IF ip.mascara = <<>> THEN 32 ELSE ip.mascara[1]
      fixos == p \div 8
  IN [octetos |-> [k \in 1..4 |-> IF k <= fixos THEN ip.octetos[k] ELSE 0],
      mascara |-> <<p>>]

Dispositivo(nome, ip, tipo) ==
  [nome |-> nome, ip |-> ip, subnet |-> Network(ip), tipo |-> tipo]

\* rede.py: "172.16.1.1/24" -> "172.16.1.0/24", None without a mask
calcular_subnet(ip) ==
  IF ip.mascara # <<>>
    THEN [octetos |-> [ip.octetos EXCEPT ![4] = 0], mascara |-> ip.mascara]
    ELSE SemSubnet

\* rede.py: self.ip = ip.split('/')[0]; gateway and subnet keep their defaults
rede_Dispositivo(nome, ip, tipo) ==
  [nome |-> nome, ip |-> [octetos |-> ip.octetos, mascara |-> <<>>],
   subnet |-> calcular_subnet(ip), tipo |-> tipo]

adicionar_vizinho(viz, d, vizinho, atributos) ==
  [viz EXCEPT ![d] = DictSet(viz[d], vizinho, atributos)]

(* ------------------------------ Rede ----------------------------------- *)
Indices(disps) == 1..Len(disps)

\* The lookup with the first device as the default in place of None
Procurar_padrao(disps, ip) ==
  IF \E d \in Indices(disps) : disps[d].ip = ip
    THEN CHOOSE d \in Indices(disps) :
           /\ disps[d].ip = ip
           /\ \A e \in Indices(disps) : disps[e].ip = ip => d <= e
    ELSE IF disps = <<>> THEN Nenhum ELSE 1

\* next((d for d in self.dispositivos if d.ip == ip), None)
Procurar(disps, ip) ==
  IF \E d \in Indices(disps) : disps[d].ip = ip
    THEN CHOOSE d \in Indices(disps) :
           /\ disps[d].ip = ip
           /\ \A e \in Indices(disps) : disps[e].ip = ip => d <= e
    ELSE Nenhum

Custo(atributos) == atributos[1]

\* heapq orders the entries (distancia, counter, dispositivo) as tuples; the
\* counter is unique, so the device is never compared.
MenorDaFila(fila) ==
  CHOOSE e \in fila :
    \A f \in fila : e[1] < f[1] \/ (e[1] = f[1] /\ e[2] <= f[2])

\* bfsRelaxar counting hops: distancia_atual + 1 for distancia_atual + custo
bfsRelaxar_saltos(est, atual, distancia_atual, item) ==
  LET vizinho == item.chave
      distancia_vizinho == distancia_atual + 1
  IN IF distancia_vizinho < est.distancias[vizinho]
       THEN [est EXCEPT !.distancias[vizinho] = distancia_vizinho,
                        !.anteriores[vizinho] = atual,
                        !.counter = est.counter + 1,
                        !.fila = est.fila \cup {<<distancia_vizinho, est.counter + 1, vizinho>>}]
       ELSE est

\* One pass of "if distancia_vizinho < distancias[vizinho]" of bfs
bfsRelaxar(est, atual, distancia_atual, item) ==
  LET vizinho == item.chave
      distancia_vizinho == distancia_atual + Custo(item.valor)
  IN IF distancia_vizinho < est.distancias[vizinho]
       THEN [est EXCEPT !.distancias[vizinho] = distancia_vizinho,
                        !.anteriores[vizinho] = atual,
                        !.counter = est.counter + 1,
                        !.fila = est.fila \cup {<<distancia_vizinho, est.counter + 1, vizinho>>}]
       ELSE est

\* "for vizinho, (custo, _, _, _) in dispositivo_atual.vizinhos.items()"
RECURSIVE bfsVizinhos(_, _, _, _, _)
bfsVizinhos(est, atual, distancia_atual, itens, k) ==
  IF k > Len(itens) THEN est
  ELSE bfsVizinhos(bfsRelaxar(est, atual, distancia_atual, itens[k]),
                   atual, distancia_atual, itens, k + 1)

\* bfsPasso without "if distancia_atual > distancias[dispositivo_atual]: continue"
bfsPasso_sem_continue(viz, est) ==
  LET topo == MenorDaFila(est.fila)
      resto == [est EXCEPT !.fila = est.fila \ {topo}, !.iteracoes = est.iteracoes + 1]
  IN bfsVizinhos([resto EXCEPT !.relaxados = Append(resto.relaxados, topo[3])],
                 topo[3], topo[1], viz[topo[3]], 1)

\* One iteration of "while fila": heappop, the "continue" of an entry that a
\* shorter one has replaced, else the loop over the neighbours. iteracoes
\* counts the iterations and relaxados lists, in order, the devices whose
\* neighbours an iteration has gone through (neither is a variable of the code).
bfsPasso(viz, est) ==
  LET topo == MenorDaFila(est.fila)
      resto == [est EXCEPT !.fila = est.fila \ {topo}, !.iteracoes = est.iteracoes + 1]
  IN IF topo[1] > est.distancias[topo[3]]
       THEN resto
       ELSE bfsVizinhos([resto EXCEPT !.relaxados = Append(resto.relaxados, topo[3])],
                        topo[3], topo[1], viz[topo[3]], 1)

\* "while fila"
RECURSIVE bfsLaco(_, _)
bfsLaco(viz, est) ==
  IF est.fila = {} THEN est ELSE bfsLaco(viz, bfsPasso(viz, est))

\* The locals of bfs when the loop is entered
bfsInicio(disps, dispositivo_inicial) ==
  [distancias |-> [d \in Indices(disps) |->
                     IF d = dispositivo_inicial THEN 0 ELSE Infinito],
   anteriores |-> [d \in Indices(disps) |-> Nenhum],
   counter    |-> 0,
   fila       |-> {<<0, 0, dispositivo_inicial>>},
   iteracoes  |-> 0,
   relaxados  |-> <<>>]

bfsEstado(disps, viz, dispositivo_inicial) ==
  bfsLaco(viz, bfsInicio(disps, dispositivo_inicial))

bfs(disps, viz, dispositivo_inicial) ==
  bfsEstado(disps, viz, dispositivo_inicial).anteriores

\* anteriores[destino] * 10: a Dispositivo times an int has no __mul__ and
\* raises TypeError; an int operand would give the product.
Vezes(operando, n) ==
  IF operando.classe = "Dispositivo"
    THEN [tipo |-> "TypeError"]
    ELSE [tipo |-> "int", valor |-> operando.valor * n]

Objeto(d) == [classe |-> "Dispositivo", valor |-> d]

\* ping reporting a destination without predecessor as not found
ping_sem_distincao(disps, viz, ip_origem, ip_destino) ==
  LET origem == Procurar(disps, ip_origem)
      destino == Procurar(disps, ip_destino)
  IN IF origem = Nenhum \/ destino = Nenhum
       THEN [tipo |-> "NaoEncontrado", buscas |-> 0]
       ELSE LET anteriores == bfs(disps, viz, origem)
            IN IF anteriores[destino] = Nenhum
                 THEN [tipo |-> "NaoEncontrado", buscas |-> 1]
                 ELSE [tipo |-> "TypeError", buscas |-> 1]

\* The value ping returns; buscas counts the runs of self.bfs the call made.
ping(disps, viz, ip_origem, ip_destino) ==
  LET origem == Procurar(disps, ip_origem)
      destino == Procurar(disps, ip_destino)
  IN IF origem = Nenhum \/ destino = Nenhum
       THEN [tipo |-> "NaoEncontrado", buscas |-> 0]
       ELSE LET anteriores == bfs(disps, viz, origem)
            IN IF anteriores[destino] = Nenhum
                 THEN [tipo |-> "Inalcancavel", buscas |-> 1]
                 ELSE LET tempo_resposta == Vezes(Objeto(anteriores[destino]), LatenciaPorSalto)
                      IN IF tempo_resposta.tipo = "TypeError"
                           THEN [tipo |-> "TypeError", buscas |-> 1]
                           ELSE [tipo |-> "Sucesso", buscas |-> 1,
                                 tempo |-> tempo_resposta.valor]

\* "while passo_atual is not None: caminho.append(...)"
RECURSIVE Subir(_, _, _)
Subir(disps, anteriores, passo_atual) ==
  IF passo_atual = Nenhum THEN <<>>
  ELSE <<[nome |-> disps[passo_atual].nome, ip |-> disps[passo_atual].ip]>>
       \o Subir(disps, anteriores, anteriores[passo_atual])

\* caminho.reverse() left out
Reverse_omitido(s) == s

\* caminho.reverse()
Reverse(s) == [k \in 1..Len(s) |-> s[Len(s) + 1 - k]]

traceroute(disps, viz, ip_origem, ip_destino) ==
  LET origem == Procurar(disps, ip_origem)
      destino == Procurar(disps, ip_destino)
  IN IF origem = Nenhum \/ destino = Nenhum
       THEN [tipo |-> "NaoEncontrado", buscas |-> 0]
       ELSE LET anteriores == bfs(disps, viz, origem)
                caminho == Reverse(Subir(disps, anteriores, destino))
            IN IF caminho # <<>>
                 THEN [tipo |-> "Caminho", buscas |-> 1, caminho |-> caminho]
                 ELSE [tipo |-> "Inalcancavel", buscas |-> 1]

\* "while anteriores[passo_atual] != dispositivo and anteriores[passo_atual] is not None"
RECURSIVE PrimeiroSalto(_, _, _)
PrimeiroSalto(anteriores, dispositivo, passo_atual) ==
  IF anteriores[passo_atual] # dispositivo /\ anteriores[passo_atual] # Nenhum
    THEN PrimeiroSalto(anteriores, dispositivo, anteriores[passo_atual])
    ELSE passo_atual

\* TabelaDe storing the destination itself as the next hop
RECURSIVE TabelaDe_destino(_, _, _, _, _)
TabelaDe_destino(disps, anteriores, dispositivo, tabela, k) ==
  IF k > Len(disps) THEN tabela
  ELSE LET passo_atual == PrimeiroSalto(anteriores, dispositivo, k)
       IN IF /\ disps[k].subnet # SemSubnet
             /\ k # dispositivo
             /\ anteriores[passo_atual] = dispositivo
            THEN TabelaDe_destino(disps, anteriores, dispositivo,
                                  DictSet(tabela, disps[k].subnet,
                                          [destino    |-> disps[k].nome,
                                           proximo    |-> disps[k].nome,
                                           ip_proximo |-> disps[k].ip]),
                                  k + 1)
            ELSE TabelaDe_destino(disps, anteriores, dispositivo, tabela, k + 1)

\* "for dest in self.dispositivos", from dest k on, onto the table so far
RECURSIVE TabelaDe(_, _, _, _, _)
TabelaDe(disps, anteriores, dispositivo, tabela, k) ==
  IF k > Len(disps) THEN tabela
  ELSE LET passo_atual == PrimeiroSalto(anteriores, dispositivo, k)
       IN IF /\ disps[k].subnet # SemSubnet
             /\ k # dispositivo
             /\ anteriores[passo_atual] = dispositivo
            THEN TabelaDe(disps, anteriores, dispositivo,
                          DictSet(tabela, disps[k].subnet,
                                  [destino    |-> disps[k].nome,
                                   proximo    |-> disps[passo_atual].nome,
                                   ip_proximo |-> disps[passo_atual].ip]),
                          k + 1)
            ELSE TabelaDe(disps, anteriores, dispositivo, tabela, k + 1)

\* The tables after mostrar_tabelas_roteamento: every router's is reset and
\* rebuilt, the other devices keep theirs.
tabelas_roteamento(disps, viz, tabelas) ==
  [d \in Indices(disps) |->
     IF disps[d].tipo = "roteador"
       THEN TabelaDe(disps, bfs(disps, viz, d), d, <<>>, 1)
       ELSE tabelas[d]]

(* ------------------------------ rede.py -------------------------------- *)
\* min(nao_visitados, key=lambda d: distancias[d]): the first element of least
\* distance in the iteration order of the set
Min(ordem, nao_visitados, distancias) ==
  LET candidatos == SelectSeq(ordem, LAMBDA d : d \in nao_visitados)
      k == CHOOSE i \in 1..Len(candidatos) :
             /\ \A j \in 1..Len(candidatos) :
                  distancias[candidatos[i]] <= distancias[candidatos[j]]
             /\ \A j \in 1..(i - 1) :
                  distancias[candidatos[j]] > distancias[candidatos[i]]
  IN candidatos[k]

\* "if alternativa < distancias[vizinho]" of dijkstra
dijkstraRelaxar(est, atual, item) ==
  LET vizinho == item.chave
      alternativa == est.distancias[atual] + Custo(item.valor)
  IN IF alternativa < est.distancias[vizinho]
       THEN [est EXCEPT !.distancias[vizinho] = alternativa,
                        !.anteriores[vizinho] = atual]
       ELSE est

\* "for vizinho, (custo, *_) in atual.vizinhos.items()"
RECURSIVE dijkstraVizinhos(_, _, _, _)
dijkstraVizinhos(est, atual, itens, k) ==
  IF k > Len(itens) THEN est
  ELSE dijkstraVizinhos(dijkstraRelaxar(est, atual, itens[k]), atual, itens, k + 1)

\* One iteration of "while nao_visitados"; iteracoes and relaxados as in bfsPasso
dijkstraPasso(viz, ordem, est) ==
  LET atual == Min(ordem, est.nao_visitados, est.distancias)
      resto == [est EXCEPT !.nao_visitados = est.nao_visitados \ {atual},
                           !.iteracoes = est.iteracoes + 1,
                           !.relaxados = Append(est.relaxados, atual)]
  IN dijkstraVizinhos(resto, atual, viz[atual], 1)

\* "while nao_visitados"
RECURSIVE dijkstraLaco(_, _, _)
dijkstraLaco(viz, ordem, est) ==
  IF est.nao_visitados = {} THEN est
  ELSE dijkstraLaco(viz, ordem, dijkstraPasso(viz, ordem, est))

\* The locals of dijkstra when the loop is entered
dijkstraInicio(disps, dispositivo_inicial) ==
  [distancias |-> [d \in Indices(disps) |->
                     IF d = dispositivo_inicial THEN 0 ELSE Infinito],
   anteriores |-> [d \in Indices(disps) |-> Nenhum],
   nao_visitados |-> Indices(disps),
   iteracoes  |-> 0,
   relaxados  |-> <<>>]

dijkstraEstado(disps, viz, ordem, dispositivo_inicial) ==
  dijkstraLaco(viz, ordem, dijkstraInicio(disps, dispositivo_inicial))

dijkstra(disps, viz, ordem, dispositivo_inicial) ==
  dijkstraEstado(disps, viz, ordem, dispositivo_inicial).anteriores

rede_ping(disps, viz, ordem, ip_origem, ip_destino) ==
  LET origem == Procurar(disps, ip_origem)
      destino == Procurar(disps, ip_destino)
  IN IF origem = Nenhum \/ destino = Nenhum
       THEN [tipo |-> "NaoEncontrado", buscas |-> 0]
       ELSE LET anteriores == dijkstra(disps, viz, ordem, origem)
            IN IF anteriores[destino] # Nenhum
                 THEN [tipo |-> "Sucesso", buscas |-> 1]
                 ELSE [tipo |-> "Inalcancavel", buscas |-> 1]

rede_traceroute(disps, viz, ordem, ip_origem, ip_destino) ==
  LET origem == Procurar(disps, ip_origem)
      destino == Procurar(disps, ip_destino)
  IN IF origem = Nenhum \/ destino = Nenhum
       THEN [tipo |-> "NaoEncontrado", buscas |-> 0]
       ELSE LET anteriores == dijkstra(disps, viz, ordem, origem)
                caminho == Reverse(Subir(disps, anteriores, destino))
            IN IF caminho # <<>>
                 THEN [tipo |-> "Caminho", buscas |-> 1, caminho |-> caminho]
                 ELSE [tipo |-> "Inalcancavel", buscas |-> 1]

\* "while anteriores[passo_atual] != dispositivo" of Rede.construir_tabelas_roteamento
RECURSIVE rede_PrimeiroSalto(_, _, _)
rede_PrimeiroSalto(anteriores, dispositivo, passo_atual) ==
  IF anteriores[passo_atual] # dispositivo
    THEN rede_PrimeiroSalto(anteriores, dispositivo, anteriores[passo_atual])
    ELSE passo_atual

\* rede_TabelaDe with the table a list of rows: each entry is appended
RECURSIVE rede_TabelaDe_lista(_, _, _, _, _)
rede_TabelaDe_lista(disps, anteriores, dispositivo, tabela, k) ==
  IF k > Len(disps) THEN tabela
  ELSE IF k # dispositivo /\ anteriores[k] # Nenhum
         THEN LET proximo_salto == rede_PrimeiroSalto(anteriores, dispositivo, k)
              IN rede_TabelaDe_lista(disps, anteriores, dispositivo,
                                     Append(tabela, [chave |-> disps[k].ip,
                                                     valor |-> disps[proximo_salto].ip]),
                                     k + 1)
         ELSE rede_TabelaDe_lista(disps, anteriores, dispositivo, tabela, k + 1)

\* "for destino in self.dispositivos" of Rede.construir_tabelas_roteamento
RECURSIVE rede_TabelaDe(_, _, _, _, _)
rede_TabelaDe(disps, anteriores, dispositivo, tabela, k) ==
  IF k > Len(disps) THEN tabela
  ELSE IF k # dispositivo /\ anteriores[k] # Nenhum
         THEN LET proximo_salto == rede_PrimeiroSalto(anteriores, dispositivo, k)
              IN rede_TabelaDe(disps, anteriores, dispositivo,
                               DictSet(tabela, disps[k].ip, disps[proximo_salto].ip),
                               k + 1)
         ELSE rede_TabelaDe(disps, anteriores, dispositivo, tabela, k + 1)

\* construir_tabelas_roteamento deriving a router's table only while it is empty
construir_tabelas_roteamento_uma_vez(disps, viz, ordem, tabelas) ==
  [d \in Indices(disps) |->
     IF disps[d].tipo = "roteador" /\ tabelas[d] = <<>>
       THEN rede_TabelaDe(disps, dijkstra(disps, viz, ordem, d), d, tabelas[d], 1)
       ELSE tabelas[d]]

\* The tables after Rede.construir_tabelas_roteamento: every router's entries
\* are written onto the table it has.
construir_tabelas_roteamento(disps, viz, ordem, tabelas) ==
  [d \in Indices(disps) |->
     IF disps[d].tipo = "roteador"
       THEN rede_TabelaDe(disps, dijkstra(disps, viz, ordem, d), d, tabelas[d], 1)
       ELSE tabelas[d]]

\* The module-level construir_tabelas_roteamento(self) of rede.py: "while
\* anteriores[passo_atual] != dispositivo and anteriores[passo_atual] is not None"
RECURSIVE funcao_PrimeiroSalto(_, _, _)
funcao_PrimeiroSalto(anteriores, dispositivo, passo_atual) ==
  IF anteriores[passo_atual] # dispositivo /\ anteriores[passo_atual] # Nenhum
    THEN funcao_PrimeiroSalto(anteriores, dispositivo, anteriores[passo_atual])
    ELSE passo_atual

\* "for dest in self.dispositivos: if dest.subnet == subnet: ... break": the
\* first device that carries the subnet, the router itself not excluded
PrimeiroDaSubnet(disps, subnet) ==
  CHOOSE d \in Indices(disps) :
    /\ disps[d].subnet = subnet
    /\ \A e \in Indices(disps) : disps[e].subnet = subnet => d <= e

\* "subnets_unicas.add(dest.subnet)" for every dest other than the router
subnets_unicas(disps, dispositivo) ==
  { disps[d].subnet : d \in { e \in Indices(disps) :
                                disps[e].subnet # SemSubnet /\ e # dispositivo } }

\* "for subnet in subnets_unicas", the subnets of the set in the order given
RECURSIVE funcao_TabelaDe(_, _, _, _, _)
funcao_TabelaDe(disps, anteriores, dispositivo, tabela, subnets) ==
  IF subnets = <<>> THEN tabela
  ELSE LET subnet == Head(subnets)
           dest == PrimeiroDaSubnet(disps, subnet)
           passo_atual == funcao_PrimeiroSalto(anteriores, dispositivo, dest)
       IN IF anteriores[passo_atual] = dispositivo
            THEN funcao_TabelaDe(disps, anteriores, dispositivo,
                                 DictSet(tabela, subnet, disps[passo_atual].ip),
                                 Tail(subnets))
            ELSE funcao_TabelaDe(disps, anteriores, dispositivo, tabela, Tail(subnets))

\* The tables after the module-level construir_tabelas_roteamento(rede);
\* ordem_subnets is the iteration order of the sets of subnet strings.
funcao_construir_tabelas_roteamento(disps, viz, ordem, ordem_subnets, tabelas) ==
  [d \in Indices(disps) |->
     IF disps[d].tipo = "roteador"
       THEN funcao_TabelaDe(disps, dijkstra(disps, viz, ordem, d), d, tabelas[d],
                            SelectSeq(ordem_subnets,
                                      LAMBDA s : s \in subnets_unicas(disps, d)))
       ELSE tabelas[d]]

(* --------------------------- the program ------------------------------- *)
\* The code a run executes: topologia.py, rede.py with the tables rebuilt by the
\* method Rede.construir_tabelas_roteamento, or rede.py with the tables rebuilt
\* by the function construir_tabelas_roteamento defined after the class.
Modulos == {"topologia", "rede", "rede_funcao"}

\* What a call that returns None leaves as the returned value. op names the
\* call for the queries and for the rebuild of the tables only; repeticao
\* tells a rebuild that follows a rebuild (2) from a first one (1).
RetornoNone == [op |-> "", args |-> <<>>, valor |-> [tipo |-> "None"], repeticao |-> 0]

\* rede = Rede()
Init ==
  /\ modulo \in Modulos
  /\ dispositivos = <<>>
  /\ vizinhos = <<>>
  /\ tabela_roteamento = <<>>
  /\ enlaces = <<>>
  /\ ordem_set = <<>>
  /\ pc = "menu"
  /\ retorno = RetornoNone

InsertAt(s, k, e) == SubSeq(s, 1, k - 1) \o <<e>> \o SubSeq(s, k, Len(s))

\* rede.adicionar_dispositivo(Dispositivo(nome, ip, tipo)); in rede.py the new
\* object's hash places it anywhere in the iteration order of the set.
adicionar_dispositivo(nome, ip, tipo, lugar) ==
  /\ pc = "menu"
  /\ IF modulo = "topologia"
       THEN /\ Len(dispositivos) < MaxDispositivos
            /\ dispositivos' = Append(dispositivos, Dispositivo(nome, ip, tipo))
            /\ lugar = 1
            /\ ordem_set' = ordem_set
       ELSE /\ Len(dispositivos) < MaxDispositivosRede
            /\ dispositivos' = Append(dispositivos, rede_Dispositivo(nome, ip, tipo))
            /\ ordem_set' = InsertAt(ordem_set, lugar, Len(dispositivos) + 1)
  /\ vizinhos' = Append(vizinhos, <<>>)
  /\ tabela_roteamento' = Append(tabela_roteamento, <<>>)
  /\ retorno' = RetornoNone
  /\ UNCHANGED <<modulo, enlaces, pc>>

\* adicionar_link without the call dispositivo2.adicionar_vizinho(dispositivo1, ...)
adicionar_link_so_ida(d1, d2, atributos) ==
  /\ pc = "menu"
  /\ vizinhos' = adicionar_vizinho(vizinhos, d1, d2, atributos)
  /\ IF modulo = "topologia"
       THEN /\ Len(enlaces) < MaxEnlaces
            /\ enlaces' = Append(enlaces, <<d1, d2>> \o atributos)
       ELSE enlaces' = enlaces
  /\ retorno' = RetornoNone
  /\ UNCHANGED <<modulo, dispositivos, tabela_roteamento, ordem_set, pc>>

\* rede.adicionar_link(dispositivo1, dispositivo2, custo, enlace, capacidade,
\* justificativa); only topologia.py logs the call in self.enlaces.
adicionar_link(d1, d2, atributos) ==
  /\ pc = "menu"
  /\ vizinhos' = adicionar_vizinho(adicionar_vizinho(vizinhos, d1, d2, atributos),
                                   d2, d1, atributos)
  /\ IF modulo = "topologia"
       THEN /\ Len(enlaces) < MaxEnlaces
            /\ enlaces' = Append(enlaces, <<d1, d2>> \o atributos)
       ELSE enlaces' = enlaces
  /\ retorno' = RetornoNone
  /\ UNCHANGED <<modulo, dispositivos, tabela_roteamento, ordem_set, pc>>

Ping(ip_origem, ip_destino) ==
  /\ pc = "menu"
  /\ retorno' = [op |-> "ping", args |-> <<ip_origem, ip_destino>>, repeticao |-> 0,
                 valor |-> IF modulo = "topologia"
                             THEN ping(dispositivos, vizinhos, ip_origem, ip_destino)
                             ELSE rede_ping(dispositivos, vizinhos, ordem_set,
                                            ip_origem, ip_destino)]
  /\ pc' = "saida"
  /\ UNCHANGED <<modulo, dispositivos, vizinhos, tabela_roteamento, enlaces, ordem_set>>

Traceroute(ip_origem, ip_destino) ==
  /\ pc = "menu"
  /\ retorno' = [op |-> "traceroute", args |-> <<ip_origem, ip_destino>>, repeticao |-> 0,
                 valor |-> IF modulo = "topologia"
                             THEN traceroute(dispositivos, vizinhos, ip_origem, ip_destino)
                             ELSE rede_traceroute(dispositivos, vizinhos, ordem_set,
                                                  ip_origem, ip_destino)]
  /\ pc' = "saida"
  /\ UNCHANGED <<modulo, dispositivos, vizinhos, tabela_roteamento, enlaces, ordem_set>>

\* topologia.py: rede.mostrar_tabelas_roteamento(); rede.py:
\* rede.construir_tabelas_roteamento()
Reconstruir ==
  /\ pc = "menu"
  /\ modulo \in {"topologia", "rede"}
  /\ tabela_roteamento' =
       IF modulo = "topologia"
         THEN tabelas_roteamento(dispositivos, vizinhos, tabela_roteamento)
         ELSE construir_tabelas_roteamento(dispositivos, vizinhos, ordem_set,
                                           tabela_roteamento)
  /\ retorno' = [RetornoNone EXCEPT !.op = "tabelas",
                                    !.repeticao = IF retorno.op = "tabelas" THEN 2 ELSE 1]
  /\ UNCHANGED <<modulo, dispositivos, vizinhos, enlaces, ordem_set, pc>>

\* rede.py: construir_tabelas_roteamento(rede), the function defined at module
\* level after class Rede
ReconstruirFuncao(ordem_subnets) ==
  /\ pc = "menu"
  /\ modulo = "rede_funcao"
  /\ tabela_roteamento' =
       funcao_construir_tabelas_roteamento(dispositivos, vizinhos, ordem_set,
                                           ordem_subnets, tabela_roteamento)
  /\ retorno' = [RetornoNone EXCEPT !.op = "tabelas_funcao"]
  /\ UNCHANGED <<modulo, dispositivos, vizinhos, enlaces, ordem_set, pc>>

\* print(rede.ping(...)) / print(rede.traceroute(...)): the value is shown and
\* the caller is back at the menu.
Imprimir ==
  /\ pc = "saida"
  /\ pc' = "menu"
  /\ retorno' = RetornoNone
  /\ UNCHANGED <<modulo, dispositivos, vizinhos, tabela_roteamento, enlaces, ordem_set>>

\* An address as typed at the prompt "IP de origem (ex: 172.16.1.1)": no mask
SemMascara(ip) == [octetos |-> ip.octetos, mascara |-> <<>>]

\* The addresses a caller asks about: those the devices store, the address of
\* the first device typed without a mask, and one of no device
Enderecos ==
  { dispositivos[d].ip : d \in Indices(dispositivos) }
    \cup { SemMascara(dispositivos[d].ip) : d \in Indices(dispositivos) \cap {1} }
    \cup {IPDesconhecido}

\* The subnet strings of the devices, and the orders a set of them iterates in
Subnets == { dispositivos[d].subnet : d \in Indices(dispositivos) } \ {SemSubnet}

Permutacoes(S) ==
  { p \in [1..Cardinality(S) -> S] : \A i, j \in 1..Cardinality(S) : i # j => p[i] # p[j] }

Next ==
  \/ \E lugar \in 1..(Len(dispositivos) + 1) :
       LET novo == Catalogo[Len(dispositivos) + 1]
       IN adicionar_dispositivo(novo.nome, novo.ip, novo.tipo, lugar)
  \/ \E d1, d2 \in Indices(dispositivos) : \E a \in Atributos :
       d1 < d2 /\ adicionar_link(d1, d2, a)
  \/ \E o, d \in Enderecos : Ping(o, d)
  \/ \E o, d \in Enderecos : Traceroute(o, d)
  \/ Reconstruir
  \/ \E o \in Permutacoes(Subnets) : ReconstruirFuncao(o)
  \/ Imprimir

Spec == Init /\ [][Next]_vars

(* ------------------ the path finder called on its own ------------------ *)
\* The adicionar_link(d1, d2, custo, enlace, capacidade, justificativa) calls
\* that build a topology on n devices: each pair of devices linked at most
\* once, in any order of the calls.
Chamadas(n) ==
  LET chamada == { <<par[1], par[2]>> \o a :
                     par \in { q \in (1..n) \X (1..n) : q[1] < q[2] }, a \in Atributos }
  IN UNION { { c \in [1..k -> chamada] :
                 \A i, j \in 1..k :
                   i # j => <<c[i][1], c[i][2]>> # <<c[j][1], c[j][2]>> } :
             k \in 0..MaxEnlacesBusca }

\* The neighbour maps after the calls, each as in adicionar_link
RECURSIVE Ligar(_, _)
Ligar(viz, chamadas) ==
  IF chamadas = <<>> THEN viz
  ELSE LET c == Head(chamadas)
           atributos == SubSeq(c, 3, Len(c))
       IN Ligar(adicionar_vizinho(adicionar_vizinho(viz, c[1], c[2], atributos),
                                  c[2], c[1], atributos),
                Tail(chamadas))

\* A Rede of MaxDispositivos devices and the links of some calls
InitBusca ==
  /\ modulo \in {"topologia", "rede"}
  /\ dispositivos =
       [d \in 1..MaxDispositivos |->
          IF modulo = "topologia"
            THEN Dispositivo(Catalogo[d].nome, Catalogo[d].ip, Catalogo[d].tipo)
            ELSE rede_Dispositivo(Catalogo[d].nome, Catalogo[d].ip, Catalogo[d].tipo)]
  /\ \E chamadas \in Chamadas(MaxDispositivos) :
       /\ vizinhos = Ligar([d \in 1..MaxDispositivos |-> <<>>], chamadas)
       /\ enlaces = IF modulo = "topologia" THEN chamadas ELSE <<>>
  /\ ordem_set \in (IF modulo = "topologia" THEN {<<>>}
                                             ELSE Permutacoes(1..MaxDispositivos))
  /\ tabela_roteamento = [d \in 1..MaxDispositivos |-> <<>>]
  /\ pc = "menu"
  /\ retorno = RetornoNone

\* rede.bfs(dispositivo_inicial) / rede.dijkstra(dispositivo_inicial) is called:
\* the statements up to the loop. retorno.valor holds the locals of the call.
IniciarBusca(dispositivo_inicial) ==
  /\ pc = "menu"
  /\ pc' = "busca"
  /\ retorno' = [op |-> "busca", args |-> <<dispositivo_inicial>>, repeticao |-> 0,
                 valor |-> IF modulo = "topologia"
                             THEN bfsInicio(dispositivos, dispositivo_inicial)
                             ELSE dijkstraInicio(dispositivos, dispositivo_inicial)]
  /\ UNCHANGED <<modulo, dispositivos, vizinhos, tabela_roteamento, enlaces, ordem_set>>

\* One iteration of the while loop
PassoBusca ==
  /\ pc = "busca"
  /\ IF modulo = "topologia"
       THEN /\ retorno.valor.fila # {}
            /\ retorno' = [retorno EXCEPT !.valor = bfsPasso(vizinhos, retorno.valor)]
       ELSE /\ retorno.valor.nao_visitados # {}
            /\ retorno' = [retorno EXCEPT
                             !.valor = dijkstraPasso(vizinhos, ordem_set, retorno.valor)]
  /\ UNCHANGED <<modulo, dispositivos, vizinhos, tabela_roteamento, enlaces, ordem_set, pc>>

\* The loop is left and "return anteriores" is reached; the value returned is
\* retorno.valor.anteriores
RetornarBusca ==
  /\ pc = "busca"
  /\ IF modulo = "topologia" THEN retorno.valor.fila = {}
                              ELSE retorno.valor.nao_visitados = {}
  /\ pc' = "saida"
  /\ UNCHANGED <<modulo, dispositivos, vizinhos, tabela_roteamento, enlaces, ordem_set,
                 retorno>>

NextBusca ==
  \/ \E d \in Indices(dispositivos) : IniciarBusca(d)
  \/ PassoBusca
  \/ RetornarBusca
  \/ Imprimir

SpecBusca == InitBusca /\ [][NextBusca]_vars

(* ======================== properties =================================== *)
Ligados(a, b) == b \in Chaves(vizinhos[a])

Enlace(a, b) == DictGet(vizinhos[a], b)

(* C1: in every reachable state, B is a neighbour of A with cost c and      *)
(* medium m exactly when A is a neighbour of B with the same cost c and     *)
(* medium m, repeated adicionar_link calls on a pair included.              *)
C1_Simetria ==
  \A a, b \in Indices(dispositivos) :
    /\ Ligados(a, b) <=> Ligados(b, a)
    /\ Ligados(a, b) => /\ Enlace(a, b)[1] = Enlace(b, a)[1]
                        /\ Enlace(a, b)[2] = Enlace(b, a)[2]

\* A pair linked twice with different costs, the later call's on both sides
C1_Witness ==
  \E i, j \in 1..Len(enlaces) :
    /\ i < j
    /\ j = Len(enlaces)
    /\ enlaces[i][1] = enlaces[j][1] /\ enlaces[i][2] = enlaces[j][2]
    /\ enlaces[i][3] # enlaces[j][3] /\ enlaces[i][4] # enlaces[j][4]
    /\ Enlace(enlaces[j][1], enlaces[j][2])[1] = enlaces[j][3]
    /\ Enlace(enlaces[j][2], enlaces[j][1])[1] = enlaces[j][3]

(* ---------------- graph notions the properties are stated in ------------ *)
\* The devices linked to one of S by a chain of links
RECURSIVE Alcance(_)
Alcance(S) ==
  LET N == S \cup { b \in Indices(dispositivos) : \E a \in S : Ligados(a, b) }
  IN IF N = S THEN S ELSE Alcance(N)

Alcancavel(a, b) == b \in Alcance({a})

EhCaminho(p) == \A k \in 1..(Len(p) - 1) : Ligados(p[k], p[k + 1])

RECURSIVE CustoCaminho(_)
CustoCaminho(p) ==
  IF Len(p) <= 1 THEN 0
  ELSE Enlace(p[1], p[2])[1] + CustoCaminho(Tail(p))

\* The paths from a to b that visit no device twice
CaminhosSimples(a, b) ==
  UNION { { p \in [1..k -> Indices(dispositivos)] :
              /\ p[1] = a /\ p[k] = b
              /\ \A i, j \in 1..k : i # j => p[i] # p[j]
              /\ EhCaminho(p) } : k \in 1..Len(dispositivos) }

\* The least total cost of a path from a to b (costs are non-negative)
CustoMinimo(a, b) ==
  LET custos == { CustoCaminho(p) : p \in CaminhosSimples(a, b) }
  IN CHOOSE c \in custos : \A e \in custos : c <= e

DispositivoDeNome(nome) ==
  CHOOSE d \in Indices(dispositivos) : dispositivos[d].nome = nome

\* The devices a returned path names, in its order
DispositivosDe(caminho) ==
  [k \in 1..Len(caminho) |-> DispositivoDeNome(caminho[k].nome)]

ComEndereco(ip) == { d \in Indices(dispositivos) : dispositivos[d].ip = ip }

\* The device an address resolves to: the first that carries it, Nenhum if
\* none does
Resolve(ip) ==
  IF ComEndereco(ip) = {} THEN Nenhum
  ELSE CHOOSE d \in ComEndereco(ip) : \A e \in ComEndereco(ip) : d <= e

Origem == Resolve(retorno.args[1])

Destino == Resolve(retorno.args[2])

Retornou(op) == pc = "saida" /\ retorno.op = op

(* C2: the path finder is optimal. For every source and every device D      *)
(* reachable from it, the predecessor chain from D back to the source (the  *)
(* chain traceroute returns) is a path of linked devices from the source to *)
(* D whose total cost is the least over all paths from the source to D.     *)
C2_CaminhoOtimo ==
  (Retornou("traceroute") /\ Origem # Nenhum /\ Destino # Nenhum
     /\ Alcancavel(Origem, Destino))
  => /\ retorno.valor.tipo = "Caminho"
     /\ LET p == DispositivosDe(retorno.valor.caminho)
        IN /\ p[1] = Origem /\ p[Len(p)] = Destino
           /\ EhCaminho(p)
           /\ CustoCaminho(p) = CustoMinimo(Origem, Destino)

\* Two alternative paths of different cost: the direct link costs more than
\* the two-link path that is returned.
C2_Witness ==
  /\ Retornou("traceroute") /\ Origem # Nenhum /\ Destino # Nenhum
  /\ retorno.valor.tipo = "Caminho"
  /\ Len(retorno.valor.caminho) = 3
  /\ Ligados(Origem, Destino)
  /\ Enlace(Origem, Destino)[1] > CustoCaminho(DispositivosDe(retorno.valor.caminho))

(* C3: for two resolved devices with the destination reachable from the     *)
(* source, traceroute returns a sequence of (name, address) whose first     *)
(* element is the source, whose last is the destination, and in which every *)
(* two consecutive elements are directly linked devices.                    *)
C3_OrdemDoCaminho ==
  (Retornou("traceroute") /\ Origem # Nenhum /\ Destino # Nenhum
     /\ Alcancavel(Origem, Destino))
  => /\ retorno.valor.tipo = "Caminho"
     /\ LET c == retorno.valor.caminho
        IN /\ c[1] = [nome |-> dispositivos[Origem].nome, ip |-> dispositivos[Origem].ip]
           /\ c[Len(c)] = [nome |-> dispositivos[Destino].nome,
                           ip |-> dispositivos[Destino].ip]
           /\ \A k \in 1..Len(c) :
                \E d \in Indices(dispositivos) :
                  c[k] = [nome |-> dispositivos[d].nome, ip |-> dispositivos[d].ip]
           /\ \A k \in 1..(Len(c) - 1) :
                Ligados(DispositivoDeNome(c[k].nome), DispositivoDeNome(c[k + 1].nome))

\* The chain c1 - a1 - e1 - h1 with all costs 1: traceroute(h1, c1) returned
\* [h1, e1, a1, c1].
C3_Witness ==
  /\ Retornou("traceroute")
  /\ Len(dispositivos) = 4 /\ Origem = 4 /\ Destino = 1
  /\ Chaves(vizinhos[1]) = {2} /\ Chaves(vizinhos[2]) = {1, 3}
  /\ Chaves(vizinhos[3]) = {2, 4} /\ Chaves(vizinhos[4]) = {3}
  /\ \A a, b \in 1..4 : Ligados(a, b) => Enlace(a, b)[1] = 1
  /\ retorno.valor.tipo = "Caminho"
  /\ [k \in 1..4 |-> retorno.valor.caminho[k].nome] = <<"h1", "e1", "a1", "c1">>

(* C4: ping(addr, addr) with the address of a device of the topology as     *)
(* source and destination returns Success with zero latency, never          *)
(* Unreachable.                                                             *)
C4_PingProprio ==
  (Retornou("ping") /\ Origem # Nenhum /\ retorno.args[1] = retorno.args[2])
  => /\ retorno.valor.tipo = "Sucesso"
     /\ "tempo" \in DOMAIN retorno.valor => retorno.valor.tempo = 0

(* C5: topologia.py's ping between two different resolved devices, the      *)
(* destination reachable from the source, returns Success with the          *)
(* round-trip indicator hopCount x 10, hopCount the number of links on the  *)
(* path from the predecessor map; it does not raise.                        *)
C5_PingSucesso ==
  (Retornou("ping") /\ modulo = "topologia"
     /\ Origem # Nenhum /\ Destino # Nenhum /\ Origem # Destino
     /\ Alcancavel(Origem, Destino))
  => /\ retorno.valor.tipo = "Sucesso"
     /\ retorno.valor.tempo =
          LatenciaPorSalto
          * (Len(traceroute(dispositivos, vizinhos, retorno.args[1], retorno.args[2]).caminho) - 1)

(* C6: a ping or traceroute call whose source or destination address is     *)
(* that of no device returns the DeviceNotFound value (it does not raise),  *)
(* without a run of the path finder and without a change to the devices,    *)
(* the neighbour maps, the link log or the routing tables.                  *)
C6_NaoEncontrado ==
  [][ (pc = "menu" /\ pc' = "saida"
         /\ (ComEndereco(retorno'.args[1]) = {} \/ ComEndereco(retorno'.args[2]) = {}))
      => /\ retorno'.valor = [tipo |-> "NaoEncontrado", buscas |-> 0]
         /\ UNCHANGED <<dispositivos, vizinhos, enlaces, tabela_roteamento>> ]_vars

\* Both calls have returned for an unknown address paired with a known one
C6_Witness ==
  /\ pc = "saida"
  /\ retorno.op \in {"ping", "traceroute"}
  /\ Len(dispositivos) >= 2
  /\ Origem = Nenhum /\ Destino # Nenhum
  /\ retorno.valor.tipo = "NaoEncontrado"

(* C7: ping between two different resolved devices with no path between     *)
(* them returns Unreachable, a value that is neither DeviceNotFound nor     *)
(* Success (nor an exception).                                              *)
C7_PingInalcancavel ==
  (Retornou("ping") /\ Origem # Nenhum /\ Destino # Nenhum /\ Origem # Destino
     /\ ~Alcancavel(Origem, Destino))
  => /\ retorno.valor.tipo = "Inalcancavel"
     /\ retorno.valor.tipo \notin {"NaoEncontrado", "Sucesso", "TypeError"}

\* The destination has no links at all, the source has some
C7_Witness ==
  /\ Retornou("ping") /\ Origem # Nenhum /\ Destino # Nenhum /\ Origem # Destino
  /\ vizinhos[Destino] = <<>> /\ vizinhos[Origem] # <<>>
  /\ retorno.valor.tipo = "Inalcancavel"

(* C8: traceroute between two different resolved devices with no path       *)
(* between them returns Unreachable and not a sequence of devices.          *)
C8_TracerouteInalcancavel ==
  (Retornou("traceroute") /\ Origem # Nenhum /\ Destino # Nenhum /\ Origem # Destino
     /\ ~Alcancavel(Origem, Destino))
  => retorno.valor.tipo = "Inalcancavel"

Roteadores == { d \in Indices(dispositivos) : dispositivos[d].tipo = "roteador" }

\* The device a table entry stores as next hop: topologia.py stores its name
\* and address, rede.py its address
ProximoSalto(entrada) ==
  IF modulo = "topologia"
    THEN { d \in Indices(dispositivos) :
             /\ dispositivos[d].nome = entrada.valor.proximo
             /\ dispositivos[d].ip = entrada.valor.ip_proximo }
    ELSE ComEndereco(entrada.valor)

(* C9: in every reachable state, whatever the adicionar_dispositivo,        *)
(* adicionar_link and rebuild calls so far, the next hop stored for any     *)
(* entry of any router R's table is a direct neighbour of R (a key of R's   *)
(* neighbour map) and is not R itself.                                      *)
C9_ProximoSaltoVizinho ==
  \A r \in Roteadores :
    \A k \in 1..Len(tabela_roteamento[r]) :
      \E v \in ProximoSalto(tabela_roteamento[r][k]) :
        /\ ProximoSalto(tabela_roteamento[r][k]) = {v}
        /\ Ligados(r, v)
        /\ v # r

\* A router holds an entry for a device two or more links away, and has been
\* given a further link since the rebuild that stored it
C9_Witness ==
  \E r \in Roteadores :
    /\ retorno.op # "tabelas"
    /\ Len(vizinhos[r]) >= 2
    /\ \E k \in 1..Len(tabela_roteamento[r]) :
         \E d \in Indices(dispositivos) :
           /\ d # r /\ ~Ligados(r, d)
           /\ tabela_roteamento[r][k].chave
                = (IF modulo = "topologia" THEN dispositivos[d].subnet
                                           ELSE dispositivos[d].ip)
           /\ modulo = "topologia" => tabela_roteamento[r][k].valor.destino = dispositivos[d].nome

(* C10: a rebuild of the routing tables that follows a rebuild, with no     *)
(* other call in between, leaves every table as the first rebuild left it   *)
(* (the same keys in the same order, the same next hop for each).           *)
C10_Idempotencia ==
  [][ (retorno.op = "tabelas" /\ retorno'.op = "tabelas")
      => tabela_roteamento' = tabela_roteamento ]_vars

\* A second rebuild in a row has returned, and a router's table has two keys
C10_Witness ==
  /\ retorno.op = "tabelas" /\ retorno.repeticao = 2
  /\ \E r \in Roteadores : Len(tabela_roteamento[r]) >= 2

\* The subnets carried by a device other than r that is reachable from r
SubnetsAlcancaveis(r) ==
  { dispositivos[d].subnet :
      d \in { e \in Indices(dispositivos) :
                /\ e # r
                /\ dispositivos[e].subnet # SemSubnet
                /\ Alcancavel(r, e) } }

\* A rebuild by one of the two functions that key the table by subnet has
\* just returned
ReconstruiuPorSubnet ==
  \/ modulo = "topologia" /\ retorno.op = "tabelas"
  \/ retorno.op = "tabelas_funcao"

(* C11: right after a rebuild (topologia.py's mostrar_tabelas_roteamento,   *)
(* rede.py's module-level construir_tabelas_roteamento), the key set of     *)
(* every router R's table is exactly the set of subnets carried by at least *)
(* one device other than R that is reachable from R.                        *)
C11_ChavesDaTabela ==
  ReconstruiuPorSubnet
  => \A r \in Roteadores : Chaves(tabela_roteamento[r]) = SubnetsAlcancaveis(r)

\* The same for topologia.py alone
Topologia_ChavesDaTabela ==
  (modulo = "topologia" /\ retorno.op = "tabelas")
  => \A r \in Roteadores : Chaves(tabela_roteamento[r]) = SubnetsAlcancaveis(r)

\* The devices constructed from an address "a.b.c.d/p": Catalogo holds the
\* arguments of the constructor calls
ComPrefixo == { d \in Indices(dispositivos) : Catalogo[d].ip.mascara # <<>> }

(* C12: a device constructed from "a.b.c.d/p" stores "a.b.c.d" as its       *)
(* address, and a ping or traceroute given "a.b.c.d" for both addresses     *)
(* resolves the device: it does not return the DeviceNotFound value.        *)
C12_EnderecoSemPrefixo ==
  /\ \A d \in ComPrefixo : dispositivos[d].ip = SemMascara(Catalogo[d].ip)
  /\ \A d \in ComPrefixo :
       (pc = "saida" /\ retorno.args = <<SemMascara(Catalogo[d].ip), SemMascara(Catalogo[d].ip)>>)
       => retorno.valor.tipo # "NaoEncontrado"

\* The same for rede.py alone
Rede_EnderecoSemPrefixo == modulo # "topologia" => C12_EnderecoSemPrefixo

(* ------------------------- the path finder ------------------------------ *)
\* A call of bfs / dijkstra is under way or has returned
EmBusca == retorno.op = "busca"

\* The devices whose neighbours the loop has gone through
Assentados(est) == { est.relaxados[k] : k \in 1..Len(est.relaxados) }

\* The devices not yet settled that share the least tentative distance, that
\* distance finite
Empatados(est) ==
  LET pendentes == { d \in DOMAIN est.distancias :
                       d \notin Assentados(est) /\ est.distancias[d] < Infinito }
  IN { d \in pendentes : \A e \in pendentes : est.distancias[d] <= est.distancias[e] }

\* The first of a set of devices in the order of Rede.dispositivos
PrimeiroInserido(S) == CHOOSE d \in S : \A e \in S : d <= e

\* An iteration that settles a device while several share the least tentative
\* distance settles the first of them in insertion order
DesempatePorInsercao ==
  (EmBusca /\ pc = "busca" /\ pc' = "busca"
     /\ Len(retorno'.valor.relaxados) = Len(retorno.valor.relaxados) + 1
     /\ Cardinality(Empatados(retorno.valor)) >= 2)
  => retorno'.valor.relaxados[Len(retorno'.valor.relaxados)]
       = PrimeiroInserido(Empatados(retorno.valor))

\* The same adicionar_link calls in every order
Reordenacoes(chamadas) ==
  { [k \in 1..Len(chamadas) |-> chamadas[p[k]]] : p \in Permutacoes(1..Len(chamadas)) }

\* The predecessor map that a call has returned is the one returned for the
\* same devices and links whatever the order of the adicionar_link calls
\* (topologia.py, from the link log) and whatever the iteration order of the
\* set (rede.py)
AnterioresIndependentes ==
  (EmBusca /\ pc = "saida")
  => IF modulo = "topologia"
       THEN \A c \in Reordenacoes(enlaces) :
              bfs(dispositivos, Ligar([d \in Indices(dispositivos) |-> <<>>], c),
                  retorno.args[1]) = retorno.valor.anteriores
       ELSE \A o \in Permutacoes(Indices(dispositivos)) :
              dijkstra(dispositivos, vizinhos, o, retorno.args[1])
                = retorno.valor.anteriores

(* C13: whenever several unsettled devices share the minimum tentative      *)
(* distance, the path finder settles next the one that comes first in the   *)
(* insertion order of the devices; and the predecessor map it returns       *)
(* depends on the device list and the links only, not on the order of the   *)
(* adicionar_link calls nor on a set or heap iteration order.               *)
C13_Desempate ==
  [][DesempatePorInsercao /\ AnterioresIndependentes']_vars

\* The first half of C13 alone
SoDesempate == [][DesempatePorInsercao]_vars

\* The iterations a call can make: bfs pops the first entry and one entry for
\* each neighbour-map entry (Entradas counts them) at most; dijkstra removes one
\* device per iteration
RECURSIVE Entradas(_)
Entradas(n) == IF n = 0 THEN 0 ELSE Len(vizinhos[n]) + Entradas(n - 1)

LimiteDeIteracoes ==
  IF modulo = "topologia" THEN 1 + Entradas(Len(dispositivos)) ELSE Len(dispositivos)

(* C14: on every topology with link costs 0 or 1, cycles and zero-cost      *)
(* links included, a call of the path finder ends: its loop makes no more   *)
(* iterations than LimiteDeIteracoes, and it goes through the neighbours of *)
(* each device at most once per call.                                       *)
C14_Terminacao ==
  EmBusca
  => /\ retorno.valor.iteracoes <= LimiteDeIteracoes
     /\ \A i, j \in 1..Len(retorno.valor.relaxados) :
          i # j => retorno.valor.relaxados[i] # retorno.valor.relaxados[j]

\* A call has returned on a topology with a cycle of three links, one of
\* cost 0, after an iteration that found a replaced heap entry and skipped it
C14_Witness ==
  /\ EmBusca /\ pc = "saida"
  /\ \E a, b, c \in Indices(dispositivos) :
       /\ a # b /\ b # c /\ a # c
       /\ Ligados(a, b) /\ Ligados(b, c) /\ Ligados(c, a)
       /\ Enlace(a, b)[1] = 0
  /\ retorno.valor.iteracoes > Len(retorno.valor.relaxados)
  /\ Len(retorno.valor.relaxados) = Len(dispositivos)

(* ------------------------ subnets with several devices ------------------ *)
\* The topology has a cycle: two linked devices joined by a further path
TemCiclo ==
  \E a, b \in Indices(dispositivos) :
    /\ a # b /\ Ligados(b, a)
    /\ \E p \in CaminhosSimples(a, b) : Len(p) >= 3

\* The neighbours of r that a least-cost path from r to d goes through first
PrimeirosSaltos(r, d) ==
  { p[2] : p \in { q \in CaminhosSimples(r, d) :
                     Len(q) >= 2 /\ CustoCaminho(q) = CustoMinimo(r, d) } }

\* The devices other than r that carry the subnet
DaSubnet(subnet, r) ==
  { d \in Indices(dispositivos) : d # r /\ dispositivos[d].subnet = subnet }

\* The last of a set of devices in the order of Rede.dispositivos
UltimoInserido(S) == CHOOSE d \in S : \A e \in S : e <= d

\* Router r reaches every device of the subnet, and two of them through
\* different neighbours whatever least-cost paths are taken
SaltosDiferentes(subnet, r) ==
  /\ subnet # SemSubnet
  /\ \A d \in DaSubnet(subnet, r) : Alcancavel(r, d)
  /\ \E d, e \in DaSubnet(subnet, r) :
       PrimeirosSaltos(r, d) \cap PrimeirosSaltos(r, e) = {}

(* C15: right after a rebuild on a topology with a cycle, where the devices *)
(* of a subnet S are reached from router R through different first hops,    *)
(* R's entry for S is the first hop toward the device of S that comes last  *)
(* in the insertion order of the devices.                                   *)
C15_UltimoDaSubnet ==
  (ReconstruiuPorSubnet /\ TemCiclo)
  => \A r \in Roteadores : \A subnet \in Subnets :
       SaltosDiferentes(subnet, r)
       => /\ subnet \in Chaves(tabela_roteamento[r])
          /\ LET entrada == tabela_roteamento[r][Posicao(tabela_roteamento[r], subnet)]
             IN ProximoSalto(entrada)
                  \subseteq PrimeirosSaltos(r, UltimoInserido(DaSubnet(subnet, r)))

\* The same for topologia.py alone
Topologia_UltimoDaSubnet == modulo = "topologia" => C15_UltimoDaSubnet

\* topologia.py: on the triangle c1, a1, e1 the entry of c1 for the subnet of
\* a1 and e1 names e1 as destination and as next hop
Topologia_UltimoDaSubnet_Witness ==
  /\ modulo = "topologia" /\ retorno.op = "tabelas" /\ TemCiclo
  /\ \E r \in Roteadores : \E subnet \in Subnets :
       /\ SaltosDiferentes(subnet, r)
       /\ DictGet(tabela_roteamento[r], subnet).destino
            = dispositivos[UltimoInserido(DaSubnet(subnet, r))].nome

(* ------------------------- rebuilds after rebuilds ---------------------- *)
\* A table as a mapping: its (key, value) pairs, whatever their order
ComoMapa(tabela) == { <<tabela[k].chave, tabela[k].valor>> : k \in 1..Len(tabela) }

\* The table of router r derived from the devices and links as they are, from
\* an empty table
Derivacao(r) ==
  IF modulo = "topologia"
    THEN TabelaDe(dispositivos, bfs(dispositivos, vizinhos, r), r, <<>>, 1)
    ELSE rede_TabelaDe(dispositivos, dijkstra(dispositivos, vizinhos, ordem_set, r),
                       r, <<>>, 1)

(* C16: right after a rebuild (topologia.py's mostrar_tabelas_roteamento,   *)
(* rede.py's Rede.construir_tabelas_roteamento), whatever calls of          *)
(* adicionar_dispositivo, adicionar_link and rebuilds came before, every    *)
(* router's table is the mapping a derivation from the current devices and  *)
(* links alone gives: no entry of an earlier rebuild is left in it.         *)
C16_RebuildCompleto ==
  (retorno.op = "tabelas")
  => \A r \in Roteadores : ComoMapa(tabela_roteamento[r]) = ComoMapa(Derivacao(r))

\* A rebuild has returned on tables that an earlier rebuild, on fewer links,
\* had filled: a router holds its keys in another order than a derivation
\* from an empty table lists them
C16_Witness ==
  /\ retorno.op = "tabelas"
  /\ \E r \in Roteadores :
       /\ Len(tabela_roteamento[r]) >= 2
       /\ tabela_roteamento[r] # Derivacao(r)

(* C17: for every topology with link costs 0 or 1 and every source device,  *)
(* dijkstra of rede.py and bfs of topologia.py return the same predecessor  *)
(* map: the map a call has returned is the one the other implementation     *)
(* returns for the same devices, neighbour maps and source (dijkstra under  *)
(* every iteration order of its set).                                       *)
C17_Equivalencia ==
  (EmBusca /\ pc = "saida")
  => IF modulo = "topologia"
       THEN \A o \in Permutacoes(Indices(dispositivos)) :
              dijkstra(dispositivos, vizinhos, o, retorno.args[1])
                = retorno.valor.anteriores
       ELSE bfs(dispositivos, vizinhos, retorno.args[1]) = retorno.valor.anteriores

\* The two agree on the tentative distances they end with
DistanciasIguais ==
  (EmBusca /\ pc = "saida")
  => IF modulo = "topologia"
       THEN \A o \in Permutacoes(Indices(dispositivos)) :
              dijkstraEstado(dispositivos, vizinhos, o, retorno.args[1]).distancias
                = retorno.valor.distancias
       ELSE bfsEstado(dispositivos, vizinhos, retorno.args[1]).distancias
              = retorno.valor.distancias
====
